---- MODULE Spec2Model ----
(***************************************************************************)
(* Web-Praat Pro (src/app.py): one Streamlit page script.  Every user      *)
(* interaction re-runs the script top to bottom; one such run is a         *)
(* "request".  The model follows the core logic of app.py lines 84-213:    *)
(* temp-file upload handling, loading through the phonetics library, the   *)
(* layout of the matplotlib grid, the optional script run and the cleanup. *)
(* Library calls (parselmouth, matplotlib) are black boxes: each call that *)
(* can raise either returns or raises, chosen nondeterministically.        *)
(***************************************************************************)
EXTENDS Integers, Sequences, FiniteSets

\* ---------------------------------------------------------------- bounds
MaxRequests == 2        \* successive requests (script reruns)
MaxTiers == 3           \* tiers in an uploaded TextGrid
MaxDur == 2             \* duration of an uploaded WAV, in whole seconds

\* Python's None, as a value comparable with the records that model objects
None == [none |-> TRUE]

VARIABLES
    \* sidebar inputs of the current request (lines 64-80)
    uploaded_wav, uploaded_tg, show_spectrogram, show_pitch, run_btn,
    \* control
    pc,            \* position in the page script; "idle" between requests
    reqs,          \* requests started so far
    outcome,       \* how the last request ended: "none", "normal", "exception"
    raised,        \* the call that raised in this request, or "none"
    \* file system and paths
    fs,            \* temp files that exist (survives across requests)
    wav_path, tg_path,
    \* library objects
    snd, tg_obj,
    \* figure
    n_tiers, fig_height, gs_rows, axes, ax_pitch, xlim, current_row, i,
    \* page output and script run
    page, scriptRuns, scriptArgs, scriptResult

inputs == <<uploaded_wav, uploaded_tg, show_spectrogram, show_pitch, run_btn>>
figure == <<n_tiers, fig_height, gs_rows, axes, ax_pitch, xlim, current_row, i>>
script == <<scriptRuns, scriptArgs, scriptResult>>
objects == <<snd, tg_obj>>
paths == <<wav_path, tg_path>>
vars == <<inputs, pc, reqs, outcome, raised, fs, paths, objects, figure, page, script>>

\* ------------------------------------------------------------ pure helpers

\* tempfile.NamedTemporaryFile(delete=False, suffix=...): a file with a name
\* no existing file has.
FreshName(files) ==
    CHOOSE n \in 1..(Cardinality(files) + 1) : \A f \in files : f.name # n

TempFile(files, suffix) == [name |-> FreshName(files), suffix |-> suffix]

\* os.unlink(path)
Unlink(files, path) == files \ {path}

\* line 106
FigHeight(spec, n) == 4 + (IF spec THEN 2 ELSE 0) + (n * 1)

\* Faulty variant: the spectrogram is given one grid row.
GsRowsOneForSpec(spec, n) == 2 + (IF spec THEN 1 ELSE 0) + n
\* line 113
GsRows(spec, n) == 2 + (IF spec THEN 2 ELSE 0) + n

\* Faulty variant: the right limit is one second past the end.
WaveXlimFromDuration(s) == <<s.xmin, s.xmax + 1>>
\* line 120
WaveXlim(s) == <<s.xmin, s.xmax>>

\* lines 117-125: gs[0:2, 0], x ticks hidden
WaveAxes ==
    [kind |-> "wave", r0 |-> 0, r1 |-> 2, sharex |-> "none",
     xticks |-> FALSE, xlabel |-> "", tier |-> 0]

\* Faulty variant: the spectrogram subplot spans a single row.
SpecAxesOneRow(row) ==
    [kind |-> "spec", r0 |-> row, r1 |-> row + 1, sharex |-> "ax_wave",
     xticks |-> FALSE, xlabel |-> "", tier |-> 0]
\* lines 141-149: gs[current_row:current_row+2, 0], sharex=ax_wave, x ticks hidden
SpecAxes(row) ==
    [kind |-> "spec", r0 |-> row, r1 |-> row + 2, sharex |-> "ax_wave",
     xticks |-> FALSE, xlabel |-> "", tier |-> 0]

\* lines 156-179: gs[current_row, 0], sharex=ax_wave; x ticks hidden unless
\* this is the last tier, which gets the "Time (s)" label
TierAxes(row, idx, n) ==
    [kind |-> "tier", r0 |-> row, r1 |-> row + 1, sharex |-> "ax_wave",
     xticks |-> ~(idx < n - 1),
     xlabel |-> IF idx < n - 1 THEN "" ELSE "Time (s)", tier |-> idx]

\* An exception nobody catches ends the page script; Streamlit shows its
\* default exception box.  Nothing after the raising line runs.
Propagate(call) ==
    /\ raised' = call
    /\ outcome' = "exception"
    /\ page' = Append(page, "exception")
    /\ pc' = "idle"

\* line 105 / line 153: the tiers of tg_obj, none when tg_obj is None
TierCount == IF tg_obj = None THEN 0 ELSE tg_obj.tiers

\* ------------------------------------------------------------------- Init
Init ==
    /\ uploaded_wav = FALSE /\ uploaded_tg = FALSE
    /\ show_spectrogram = TRUE /\ show_pitch = TRUE /\ run_btn = FALSE
    /\ pc = "idle" /\ reqs = 0 /\ outcome = "none" /\ raised = "none"
    /\ fs = {}
    /\ wav_path = None /\ tg_path = None
    /\ snd = None /\ tg_obj = None
    /\ n_tiers = 0 /\ fig_height = 0 /\ gs_rows = 0 /\ axes = <<>>
    /\ ax_pitch = None /\ xlim = <<>> /\ current_row = 0 /\ i = 0
    /\ page = <<>>
    /\ scriptRuns = 0 /\ scriptArgs = <<>> /\ scriptResult = "none"

\* ---------------------------------------------------------------- actions

\* A user interaction: Streamlit re-runs the script with the widget values
\* (lines 64-80).  All script-level names are fresh; only the file system
\* carries over.
NewRequest ==
    /\ pc = "idle"
    /\ reqs < MaxRequests
    /\ reqs' = reqs + 1
    /\ uploaded_wav' \in BOOLEAN
    /\ uploaded_tg' \in BOOLEAN
    /\ show_spectrogram' \in BOOLEAN
    /\ show_pitch' \in BOOLEAN
    /\ run_btn' \in BOOLEAN
    /\ pc' = "start"
    /\ outcome' = "none" /\ raised' = "none"
    /\ wav_path' = None /\ tg_path' = None
    /\ snd' = None /\ tg_obj' = None
    /\ n_tiers' = 0 /\ fig_height' = 0 /\ gs_rows' = 0 /\ axes' = <<>>
    /\ ax_pitch' = None /\ xlim' = <<>> /\ current_row' = 0 /\ i' = 0
    /\ page' = <<>>
    /\ scriptRuns' = 0 /\ scriptArgs' = <<>> /\ scriptResult' = "none"
    /\ UNCHANGED fs

\* lines 211-213: no audio uploaded
Welcome ==
    /\ pc = "start"
    /\ ~uploaded_wav
    /\ page' = Append(page, "welcome")
    /\ outcome' = "normal"
    /\ pc' = "idle"
    /\ UNCHANGED <<inputs, reqs, raised, fs, paths, objects, figure, script>>

\* lines 84-88
WriteWav ==
    /\ pc = "start"
    /\ uploaded_wav
    /\ LET f == TempFile(fs, ".wav") IN
         /\ fs' = fs \cup {f}
         /\ wav_path' = f
    /\ pc' = "load_snd"
    /\ UNCHANGED <<inputs, reqs, outcome, raised, tg_path, objects, figure, page, script>>

\* lines 90-94: parselmouth.Sound(wav_path); a sound read from a WAV file
\* starts at 0 and ends at its duration.  tg_obj = None.
LoadSnd ==
    /\ pc = "load_snd"
    /\ \/ /\ wav_path \in fs          \* the file is there to be read
          /\ \E d \in 1..MaxDur : snd' = [xmin |-> 0, xmax |-> d, duration |-> d]
          /\ pc' = IF uploaded_tg THEN "write_tg" ELSE "layout"
          /\ UNCHANGED <<outcome, raised, page>>
       \/ /\ Propagate("Sound")
          /\ UNCHANGED snd
    /\ UNCHANGED <<inputs, reqs, fs, paths, tg_obj, figure, script>>

\* lines 95-97
WriteTg ==
    /\ pc = "write_tg"
    /\ LET f == TempFile(fs, ".TextGrid") IN
         /\ fs' = fs \cup {f}
         /\ tg_path' = f
    /\ pc' = "load_tg"
    /\ UNCHANGED <<inputs, reqs, outcome, raised, wav_path, objects, figure, page, script>>

\* line 98: parselmouth.read(tg_path)
LoadTg ==
    /\ pc = "load_tg"
    /\ \/ /\ tg_path \in fs
          /\ \E n \in 0..MaxTiers : tg_obj' = [tiers |-> n]
          /\ pc' = "layout"
          /\ UNCHANGED <<outcome, raised, page>>
       \/ /\ Propagate("read")
          /\ UNCHANGED tg_obj
    /\ UNCHANGED <<inputs, reqs, fs, paths, snd, figure, script>>

\* lines 101-114: subheader, n_tiers, fig_height, gs_rows
Layout ==
    /\ pc = "layout"
    /\ \/ /\ LET n == TierCount IN
               /\ n_tiers' = n
               /\ fig_height' = FigHeight(show_spectrogram, n)
               /\ gs_rows' = GsRows(show_spectrogram, n)
          /\ page' = Append(page, "subheader_view")
          /\ pc' = "wave"
          /\ UNCHANGED <<outcome, raised>>
       \/ /\ tg_obj # None              \* tg_obj.tiers raises
          /\ raised' = "tiers"
          /\ outcome' = "exception"
          /\ page' = page \o <<"subheader_view", "exception">>
          /\ pc' = "idle"
          /\ UNCHANGED <<n_tiers, fig_height, gs_rows>>
    /\ UNCHANGED <<inputs, reqs, fs, paths, objects, axes, ax_pitch, xlim,
                   current_row, i, script>>

\* lines 117-125
DrawWave ==
    /\ pc = "wave"
    /\ axes' = <<WaveAxes>>
    /\ xlim' = WaveXlim(snd)
    /\ pc' = "pitch"
    /\ UNCHANGED <<inputs, reqs, outcome, raised, fs, paths, objects, n_tiers,
                   fig_height, gs_rows, ax_pitch, current_row, i, page, script>>

\* lines 128-137: the pitch line is drawn on a twin of ax_wave (same grid
\* cell, axis switched off); then current_row = 2
DrawPitch ==
    /\ pc = "pitch"
    /\ \/ /\ show_pitch
          /\ ax_pitch' = [twin_of |-> "ax_wave", ylim |-> <<0, 500>>, axis |-> "off"]
          /\ current_row' = 2
          /\ pc' = "spec"
          /\ UNCHANGED <<outcome, raised, page>>
       \/ /\ show_pitch
          /\ Propagate("to_pitch")
          /\ UNCHANGED <<ax_pitch, current_row>>
       \/ /\ ~show_pitch
          /\ current_row' = 2
          /\ pc' = "spec"
          /\ UNCHANGED <<ax_pitch, outcome, raised, page>>
    /\ UNCHANGED <<inputs, reqs, fs, paths, objects, n_tiers, fig_height, gs_rows,
                   axes, xlim, i, script>>

\* Faulty variant: a failing to_spectrogram() is swallowed and the script goes on.
DrawSpectrogramCaught ==
    /\ pc = "spec"
    /\ \/ /\ show_spectrogram
          /\ axes' = Append(axes, SpecAxes(current_row))
          /\ current_row' = current_row + 2
          /\ pc' = "tiers"
          /\ UNCHANGED <<outcome, raised, page>>
       \/ /\ show_spectrogram
          /\ axes' = Append(axes, SpecAxes(current_row))
          /\ current_row' = current_row + 2
          /\ raised' = "to_spectrogram"
          /\ pc' = "tiers"
          /\ UNCHANGED <<outcome, page>>
       \/ /\ ~show_spectrogram
          /\ pc' = "tiers"
          /\ UNCHANGED <<axes, current_row, outcome, raised, page>>
    /\ UNCHANGED <<inputs, reqs, fs, paths, objects, n_tiers, fig_height, gs_rows,
                   ax_pitch, xlim, i, script>>
\* lines 140-150
DrawSpectrogram ==
    /\ pc = "spec"
    /\ \/ /\ show_spectrogram
          /\ axes' = Append(axes, SpecAxes(current_row))
          /\ current_row' = current_row + 2
          /\ pc' = "tiers"
          /\ UNCHANGED <<outcome, raised, page>>
       \/ /\ show_spectrogram           \* snd.to_spectrogram() raises
          /\ axes' = Append(axes, SpecAxes(current_row))
          /\ Propagate("to_spectrogram")
          /\ UNCHANGED current_row
       \/ /\ ~show_spectrogram
          /\ pc' = "tiers"
          /\ UNCHANGED <<axes, current_row, outcome, raised, page>>
    /\ UNCHANGED <<inputs, reqs, fs, paths, objects, n_tiers, fig_height, gs_rows,
                   ax_pitch, xlim, i, script>>

\* Faulty variant: current_row is not advanced after a tier.
DrawTierNoAdvance ==
    /\ pc = "tiers"
    /\ tg_obj # None
    /\ i < tg_obj.tiers
    /\ axes' = Append(axes, TierAxes(current_row, i, n_tiers))
    /\ current_row' = current_row
    /\ i' = i + 1
    /\ UNCHANGED <<pc, outcome, raised, page>>
    /\ UNCHANGED <<inputs, reqs, fs, paths, objects, n_tiers, fig_height, gs_rows,
                   ax_pitch, xlim, script>>
\* lines 153-181: one iteration of the loop over tg_obj.tiers
DrawTier ==
    /\ pc = "tiers"
    /\ tg_obj # None
    /\ i < tg_obj.tiers
    /\ axes' = Append(axes, TierAxes(current_row, i, n_tiers))
    /\ \/ /\ current_row' = current_row + 1
          /\ i' = i + 1
          /\ UNCHANGED <<pc, outcome, raised, page>>
       \/ /\ Propagate("tier")          \* tier.class_name / iteration raises
          /\ UNCHANGED <<current_row, i>>
    /\ UNCHANGED <<inputs, reqs, fs, paths, objects, n_tiers, fig_height, gs_rows,
                   ax_pitch, xlim, script>>

\* lines 184-185: the loop is over (or there is no TextGrid); st.pyplot(fig)
ShowFigure ==
    /\ pc = "tiers"
    /\ i = TierCount
    /\ page' = Append(page, "figure")
    /\ pc' = "script"
    /\ UNCHANGED <<inputs, reqs, outcome, raised, fs, paths, objects, figure, script>>

\* Faulty variant: the script runs whether or not the button was pressed.
RunGateAlways(btn) == TRUE
\* line 188
RunGate(btn) == btn

\* Faulty variant: no try/except around run_script.
RunScriptUncaught ==
    /\ pc = "script"
    /\ \/ /\ RunGate(run_btn)
          /\ scriptRuns' = scriptRuns + 1
          /\ scriptArgs' = <<"snd">>
          /\ \/ /\ scriptResult' = "text"
                /\ page' = page \o <<"rule", "subheader_report", "info">>
                /\ pc' = "cleanup"
                /\ UNCHANGED <<raised, outcome>>
             \/ /\ scriptResult' = "empty"
                /\ page' = page \o <<"rule", "subheader_report", "success">>
                /\ pc' = "cleanup"
                /\ UNCHANGED <<raised, outcome>>
             \/ /\ scriptResult' = "raise"
                /\ raised' = "run_script"
                /\ outcome' = "exception"
                /\ page' = page \o <<"rule", "subheader_report", "exception">>
                /\ pc' = "idle"
       \/ /\ ~RunGate(run_btn)
          /\ pc' = "cleanup"
          /\ UNCHANGED <<script, page, raised, outcome>>
    /\ UNCHANGED <<inputs, reqs, fs, paths, objects, figure>>
\* lines 188-204: run_script(script_code, snd) inside try / except Exception.
\* A failing script is an Exception (the engine's PraatError), which the
\* handler catches.
RunScript ==
    /\ pc = "script"
    /\ \/ /\ RunGate(run_btn)
          /\ scriptRuns' = scriptRuns + 1
          /\ scriptArgs' = <<"snd">>
          /\ \/ /\ scriptResult' = "text"      \* info is a non-empty string
                /\ page' = page \o <<"rule", "subheader_report", "info">>
                /\ UNCHANGED raised
             \/ /\ scriptResult' = "empty"     \* info is falsy
                /\ page' = page \o <<"rule", "subheader_report", "success">>
                /\ UNCHANGED raised
             \/ /\ scriptResult' = "raise"     \* except Exception as e
                /\ raised' = "run_script"
                /\ page' = page \o <<"rule", "subheader_report", "error">>
       \/ /\ ~RunGate(run_btn)
          /\ UNCHANGED <<script, page, raised>>
    /\ pc' = "cleanup"
    /\ UNCHANGED <<inputs, reqs, outcome, fs, paths, objects, figure>>

\* Faulty variant: the unlink lines may also run right after the WAV copy is written.
CleanupBeforeUse ==
    /\ pc \in {"load_snd", "cleanup"}
    /\ fs' = IF tg_obj # None
             THEN Unlink(Unlink(fs, wav_path), tg_path)
             ELSE Unlink(fs, wav_path)
    /\ IF pc = "cleanup"
       THEN outcome' = "normal" /\ pc' = "idle"
       ELSE UNCHANGED <<outcome, pc>>
    /\ UNCHANGED <<inputs, reqs, raised, paths, objects, figure, page, script>>
\* lines 207-209
Cleanup ==
    /\ pc = "cleanup"
    /\ fs' = IF tg_obj # None
             THEN Unlink(Unlink(fs, wav_path), tg_path)
             ELSE Unlink(fs, wav_path)
    /\ outcome' = "normal"
    /\ pc' = "idle"
    /\ UNCHANGED <<inputs, reqs, raised, paths, objects, figure, page, script>>

Next ==
    \/ NewRequest
    \/ Welcome
    \/ WriteWav
    \/ LoadSnd
    \/ WriteTg
    \/ LoadTg
    \/ Layout
    \/ DrawWave
    \/ DrawPitch
    \/ DrawSpectrogram
    \/ DrawTier
    \/ ShowFigure
    \/ RunScript
    \/ Cleanup

Spec == Init /\ [][Next]_vars

\* ------------------------------------------------------------- vocabulary
Range(s) == {s[k] : k \in DOMAIN s}
CountIn(s, S) == Cardinality({k \in DOMAIN s : s[k] \in S})
ScriptOutputs == {"info", "success", "error"}
RenderCalls == {"Sound", "read", "tiers", "to_pitch", "to_spectrogram", "tier"}
RequestEnded == pc = "idle" /\ reqs > 0
FigureShown == "figure" \in Range(page)
LaidOut == gs_rows # 0
SpecRows == IF show_spectrogram THEN 2 ELSE 0
AxesOfKind(kind) == {k \in DOMAIN axes : axes[k].kind = kind}

\* ------------------------------------------------------------------ claims

\* C1: when the script run raises, the failure is caught: an error message
\* is shown below the figure, which stays on the page, no exception leaves
\* the request, and the request goes on to its cleanup and normal end with
\* its temp files deleted.
C1_ScriptFailureCaught ==
    scriptResult = "raise" =>
        /\ raised = "run_script"
        /\ page[Len(page)] = "error"
        /\ FigureShown
        /\ "exception" \notin Range(page)
        /\ outcome # "exception"
        /\ pc \in {"cleanup", "idle"}
        /\ pc = "idle" =>
              /\ outcome = "normal"
              /\ wav_path \notin fs
              /\ tg_path # None => tg_path \notin fs

C1_Witness ==
    /\ scriptResult = "raise" /\ pc = "idle" /\ outcome = "normal"
    /\ uploaded_tg /\ tg_path # None

\* C2: whenever no request is running, no temporary file exists: every
\* request has deleted the files it created, whether or not it failed.
C2_NoTempFileRemains == pc = "idle" => fs = {}

\* C3: the grid has two rows more with the spectrogram on than the 2 + N rows
\* it has with the spectrogram off, whatever the pitch toggle; the spectrogram
\* subplot exists exactly when the toggle is on and occupies rows 2 and 3.
C3_SpectrogramAddsTwoRows ==
    /\ LaidOut => gs_rows = (2 + n_tiers) + (IF show_spectrogram THEN 2 ELSE 0)
    /\ \A k \in AxesOfKind("spec") :
          /\ show_spectrogram
          /\ k = 2
          /\ axes[k].r0 = 2 /\ axes[k].r1 = 4
    /\ FigureShown => (Cardinality(AxesOfKind("spec")) = IF show_spectrogram THEN 1 ELSE 0)

C3_Witness ==
    /\ FigureShown /\ show_spectrogram /\ ~show_pitch /\ n_tiers = 2
    /\ gs_rows = 6

\* C4: with N tiers in the annotation file the grid has 2 + (2 if
\* spectrogram) + N rows, the displayed figure has exactly N tier subplots,
\* the i-th tier sits in the i-th row after the waveform/spectrogram rows,
\* and without an annotation upload N = 0 and there is no tier row.
C4_OneRowPerTier ==
    /\ LaidOut => /\ n_tiers = TierCount
                  /\ gs_rows = 2 + SpecRows + TierCount
    /\ \A k \in AxesOfKind("tier") :
          /\ axes[k].r0 = 2 + SpecRows + axes[k].tier
          /\ axes[k].r1 = axes[k].r0 + 1
          /\ axes[k].tier < TierCount
          /\ \A m \in AxesOfKind("tier") : m < k => axes[m].tier < axes[k].tier
    /\ FigureShown =>
          {axes[k].tier : k \in AxesOfKind("tier")} = 0..(TierCount - 1)
    /\ ~uploaded_tg => TierCount = 0 /\ AxesOfKind("tier") = {}

C4_Witness ==
    /\ FigureShown /\ TierCount = MaxTiers /\ show_spectrogram
    /\ Cardinality(AxesOfKind("tier")) = MaxTiers

\* C5: the waveform's x-limits are [0, D] for a sound of duration D, whatever
\* the toggles and the tier count, and every other subplot shares the
\* waveform's x axis.
C5_WaveformSpansDuration ==
    /\ axes # <<>> =>
          /\ axes[1].kind = "wave"
          /\ xlim = <<0, snd.duration>>
    /\ \A k \in DOMAIN axes : k > 1 => axes[k].sharex = "ax_wave"

C5_Witness ==
    /\ FigureShown /\ snd.duration = MaxDur /\ xlim = <<0, MaxDur>>
    /\ AxesOfKind("spec") # {} /\ AxesOfKind("tier") # {}

\* C6: a failure of audio loading, annotation loading or an analysis or
\* rendering step is not caught: it ends the request as an exception, and in
\* that request no script ran and no script output is on the page; nothing
\* but such a failure ends a request as an exception.
C6_OnlyScriptFailuresHandled ==
    /\ raised \in RenderCalls =>
          /\ pc = "idle"
          /\ outcome = "exception"
          /\ page[Len(page)] = "exception"
          /\ scriptRuns = 0
          /\ CountIn(page, ScriptOutputs) = 0
    /\ outcome = "exception" => raised \in RenderCalls

C6_Witness ==
    /\ raised = "to_spectrogram" /\ run_btn /\ outcome = "exception"

\* C7: steps of one request keep their order: a temp file exists when it is
\* loaded, subplots are drawn from loaded objects, the script runs only
\* after the figure is on the page, and a temp file is deleted only after
\* the figure is on the page and the requested script has run.
C7_PipelineOrder ==
    [][ /\ (pc = "load_snd" /\ pc' # pc) => wav_path \in fs
        /\ (pc = "load_tg" /\ pc' # pc) => tg_path \in fs
        /\ (axes' # axes /\ axes' # <<>>) =>
               /\ snd # None
               /\ uploaded_tg => tg_obj # None
               /\ ~FigureShown
        /\ scriptRuns' > scriptRuns => FigureShown
        /\ ~(fs \subseteq fs') =>
               /\ FigureShown
               /\ run_btn => scriptRuns = 1
               /\ pc' = "idle"
      ]_vars

C7_Witness ==
    /\ pc = "idle" /\ outcome = "normal" /\ uploaded_tg /\ run_btn
    /\ scriptRuns = 1 /\ FigureShown /\ fs = {}

C8_Rest ==
    /\ scriptRuns <= 1
    /\ scriptRuns = 1 =>
          /\ uploaded_wav /\ run_btn
          /\ scriptArgs = <<"snd">>
          /\ CountIn(page, ScriptOutputs) = 1
          /\ scriptResult = "text" => "info" \in Range(page)
          /\ scriptResult = "empty" => "success" \in Range(page)
          /\ scriptResult = "raise" => "error" \in Range(page)
    /\ scriptRuns = 0 => CountIn(page, ScriptOutputs) = 0
    /\ (RequestEnded /\ ~uploaded_wav) =>
          /\ page = <<"welcome">>
          /\ wav_path = None /\ tg_path = None
          /\ axes = <<>>
          /\ scriptRuns = 0

\* C8 (as amended): the script is run, at most once and on the sound only,
\* exactly in the requests with an audio upload and the run button pressed
\* whose loading and rendering did not fail (the figure was displayed); a
\* run shows exactly one of text output, the no-output message or the error
\* message; without an audio upload only the welcome message is shown.
C8_ScriptRunsIffRequestedAndRendered ==
    /\ C8_Rest
    /\ RequestEnded =>
          (scriptRuns = 1 <=> (uploaded_wav /\ run_btn /\ raised \notin RenderCalls))
    /\ RequestEnded => (raised \notin RenderCalls <=> (uploaded_wav => FigureShown))

C8_Witness ==
    /\ RequestEnded /\ uploaded_wav /\ run_btn /\ scriptRuns = 1
    /\ scriptResult = "empty" /\ "success" \in Range(page)

\* C8 (as stated): the script is run exactly in the requests with an audio
\* upload and the run button pressed.
C8_ScriptRunsIffRequested ==
    /\ C8_Rest
    /\ RequestEnded => (scriptRuns = 1 <=> (uploaded_wav /\ run_btn))

\* C9: the subplots tile the grid: the waveform takes rows 0-1, each later
\* subplot starts where the previous one ended, none reaches past the last
\* grid row, and once the figure is shown the row counter and the last
\* subplot end at the grid's row count; the row count does not depend on the
\* pitch toggle and the figure height is the row count plus 2.
C9_SubplotsTileGrid ==
    /\ axes # <<>> => axes[1].r0 = 0 /\ axes[1].r1 = 2
    /\ \A k \in DOMAIN axes :
          /\ axes[k].r0 < axes[k].r1
          /\ axes[k].r1 <= gs_rows
          /\ k > 1 => axes[k].r0 = axes[k - 1].r1
    /\ FigureShown =>
          /\ current_row = gs_rows
          /\ axes[Len(axes)].r1 = gs_rows
    /\ LaidOut =>
          /\ gs_rows = 2 + SpecRows + n_tiers
          /\ fig_height = gs_rows + 2

C9_Witness ==
    /\ FigureShown /\ show_spectrogram /\ show_pitch /\ ax_pitch # None
    /\ n_tiers = 2 /\ Len(axes) = 4 /\ current_row = 6

\* C10: in every displayed figure exactly one subplot keeps its x ticks: the
\* one in the last grid row, which carries the "Time (s)" label; every
\* subplot above it has its x ticks hidden.
C10_OnlyBottomShowsTicks ==
    FigureShown =>
        /\ Cardinality({k \in DOMAIN axes : axes[k].xticks}) = 1
        /\ \A k \in DOMAIN axes :
              axes[k].xticks <=> (axes[k].r1 = gs_rows /\ axes[k].xlabel = "Time (s)")

====
